---------------------------- MODULE Spec2Model ----------------------------
(* Model of consensus/consensus-types/src/vote.rs: the Vote message,      *)
(* its constructors, the timeout augmentation API and Vote::verify.       *)
(* A behaviour follows one Vote object: it is built by new() or           *)
(* new_with_signature(), or arrives from the wire through the derived     *)
(* Deserialize impl, is then augmented, and is verified against a         *)
(* ValidatorVerifier.  A failed assert! ends the process.                 *)
EXTENDS Integers, Sequences, FiniteSets, TLC

(* ------------------------------ bounds -------------------------------- *)
MaxEpoch == 2
MaxRound == 5

Epochs == 1..MaxEpoch
Rounds == 4..MaxRound
QcRounds == {4}
Authors == {"A", "B"}
\* The validator sets a ValidatorVerifier may hold.
Verifiers == {{"A"}, {"A", "B"}}

(* ---------------------- Option<T> and Result<()> ---------------------- *)
\* Option<T>: the empty tuple is None, a one-element tuple is Some(x).
None == << >>
Some(x) == <<x>>
is_none(o) == o = None
is_some(o) == o # None

\* anyhow::Result<()>: the empty chain is Ok(()), an error is its chain of
\* messages, outermost context first.
Ok == << >>
\* ensure!(cond, msg) failing: an error holding msg alone.
Bail(msg) == <<msg>>
\* .context(msg) on an Err.
Context(err, msg) == <<msg>> \o err

(* ------------------------ external collaborators ---------------------- *)
\* VoteData: the proposed block's (epoch, round); ok abstracts the outcome
\* of its own consistency check, which depends on its content only.
VoteDatas == [epoch : Epochs, round : Rounds, ok : BOOLEAN]

\* VoteData.hash(): content addressed, collision free on VoteDatas; never 0.
Hash(vote_data) ==
    (vote_data.epoch * (MaxRound + 1) + vote_data.round) * 2
        + (IF vote_data.ok THEN 1 ELSE 0)

\* VoteData.verify()
VoteData_verify(vote_data) ==
    IF vote_data.ok THEN Ok ELSE Bail("VoteData is inconsistent")

\* Values of the consensus-data-hash slot: the hashes, and 0 for
\* HashValue::zero() of a placeholder.
HashValues == {Hash(vd) : vd \in VoteDatas} \cup {0}

LedgerInfos == [commit_info : {"c0"}, consensus_data_hash : HashValues]

\* LedgerInfo.set_consensus_data_hash(hash)
set_consensus_data_hash(ledger_info, hash) ==
    [ledger_info EXCEPT !.consensus_data_hash = hash]

\* Timeout::new(epoch, round)
Timeout_new(epoch, round) == [epoch |-> epoch, round |-> round]

\* QuorumCert: its certified round; valid abstracts whether it verifies.
QuorumCerts == [round : QcRounds, valid : BOOLEAN]

\* TwoChainTimeout::new(epoch, round, qc)
TwoChainTimeout_new(epoch, round, qc) ==
    [epoch |-> epoch, round |-> round, quorum_cert |-> qc]

\* TwoChainTimeout.verify(validator): the justifying QC must verify.
TwoChainTimeout_verify(timeout, validator) ==
    IF timeout.quorum_cert.valid THEN Ok ELSE Bail("TwoChainTimeout is invalid")

\* The signed payloads.  Each kind of payload has its own domain tag, so
\* no payload of one kind equals a payload of another kind.
LedgerInfoMsg(ledger_info) ==
    <<"LedgerInfo", ledger_info.commit_info, ledger_info.consensus_data_hash>>
TimeoutMsg(timeout) == <<"Timeout", timeout.epoch, timeout.round>>
\* TwoChainTimeout.signing_format()
signing_format(timeout) ==
    <<"TwoChainTimeout", timeout.epoch, timeout.round, timeout.quorum_cert.round>>

\* ValidatorSigner.sign(message): an unforgeable signature is the pair of
\* who signed and what was signed.
ValidatorSigner_sign(validator_signer, message) ==
    [signer |-> validator_signer, msg |-> message]

\* ValidatorVerifier.verify(author, message, signature)
ValidatorVerifier_verify(validator, author, message, signature) ==
    IF author \in validator /\ signature.signer = author /\ signature.msg = message
    THEN Ok
    ELSE Bail("VerifyError")

(* ------------------------------- Vote --------------------------------- *)
\* Vote::new_with_signature
new_with_signature(vote_data, author, ledger_info, signature) ==
    [vote_data |-> vote_data,
     author |-> author,
     ledger_info |-> ledger_info,
     signature |-> signature,
     timeout_signature |-> None,
     two_chain_timeout |-> None]

\* new() signing the placeholder as it came, the hash slot left unset.
new_unbound(vote_data, author, ledger_info_placeholder, validator_signer) ==
    new_with_signature(vote_data, author, ledger_info_placeholder,
        ValidatorSigner_sign(validator_signer, LedgerInfoMsg(ledger_info_placeholder)))

\* Vote::new
new(vote_data, author, ledger_info_placeholder, validator_signer) ==
    LET ledger_info ==
            set_consensus_data_hash(ledger_info_placeholder, Hash(vote_data))
        signature ==
            ValidatorSigner_sign(validator_signer, LedgerInfoMsg(ledger_info))
    IN  new_with_signature(vote_data, author, ledger_info, signature)

\* Outcome of a &mut self method: the vote afterwards, whether an assert!
\* failed (the vote is then untouched), and whether it returned early.
Done(v) == [vote |-> v, panic |-> FALSE, early |-> FALSE]
EarlyReturn(v) == [vote |-> v, panic |-> FALSE, early |-> TRUE]
Panic(v) == [vote |-> v, panic |-> TRUE, early |-> FALSE]

\* add_timeout_signature() without its assert!.
add_timeout_signature_unguarded(v, signature) ==
    IF is_some(v.timeout_signature) THEN EarlyReturn(v)
    ELSE Done([v EXCEPT !.timeout_signature = Some(signature)])

\* add_timeout_signature() without its early return: the last signature wins.
add_timeout_signature_overwrite(v, signature) ==
    IF ~is_none(v.two_chain_timeout) THEN Panic(v)
    ELSE Done([v EXCEPT !.timeout_signature = Some(signature)])

\* add_timeout_signature() asserting that no timeout of either kind is set.
add_timeout_signature_strict(v, signature) ==
    IF ~is_none(v.two_chain_timeout) \/ ~is_none(v.timeout_signature)
    THEN Panic(v)
    ELSE Done([v EXCEPT !.timeout_signature = Some(signature)])

\* add_timeout_signature() storing the signature in the primary slot.
add_timeout_signature_primary(v, signature) ==
    IF ~is_none(v.two_chain_timeout) THEN Panic(v)
    ELSE IF is_some(v.timeout_signature) THEN EarlyReturn(v)
    ELSE Done([v EXCEPT !.signature = signature])

\* Vote::add_timeout_signature
add_timeout_signature(v, signature) ==
    IF ~is_none(v.two_chain_timeout) THEN Panic(v)
    ELSE IF is_some(v.timeout_signature) THEN EarlyReturn(v)
    ELSE Done([v EXCEPT !.timeout_signature = Some(signature)])

\* add_2chain_timeout() without its assert!.
add_2chain_timeout_unguarded(v, timeout, signature) ==
    Done([v EXCEPT !.two_chain_timeout = Some(<<timeout, signature>>)])

\* add_2chain_timeout() keeping a timeout that is already there.
add_2chain_timeout_keep_first(v, timeout, signature) ==
    IF ~is_none(v.timeout_signature) THEN Panic(v)
    ELSE IF is_some(v.two_chain_timeout) THEN EarlyReturn(v)
    ELSE Done([v EXCEPT !.two_chain_timeout = Some(<<timeout, signature>>)])

\* Vote::add_2chain_timeout
add_2chain_timeout(v, timeout, signature) ==
    IF ~is_none(v.timeout_signature) THEN Panic(v)
    ELSE Done([v EXCEPT !.two_chain_timeout = Some(<<timeout, signature>>)])

(* ------------------- #[derive(Deserialize, Serialize)] ------------------- *)
\* The wire form of a vote: its fields in declaration order, each under its
\* name. An Option travels as <<"none">> or <<"some", x>>.
Field(name, value) == <<name, value>>
encode_option(o) == IF is_none(o) THEN <<"none">> ELSE <<"some", o[1]>>
decode_option(w) == IF w[1] = "none" THEN None ELSE Some(w[2])
HasField(bytes, name) == \E i \in DOMAIN bytes : bytes[i][1] = name
FieldValue(bytes, name) == bytes[CHOOSE i \in DOMAIN bytes : bytes[i][1] = name][2]

\* The fields without #[serde(default)]: decoding fails when one is missing.
RequiredFields ==
    {"vote_data", "author", "ledger_info", "signature", "timeout_signature"}

DecodeOk(v) == [ok |-> TRUE, vote |-> Some(v)]
DecodeErr == [ok |-> FALSE, vote |-> None]

\* Serialize without skip_serializing_if: two_chain_timeout always written.
serialize_no_skip(v) ==
    <<Field("vote_data", v.vote_data),
      Field("author", v.author),
      Field("ledger_info", v.ledger_info),
      Field("signature", v.signature),
      Field("timeout_signature", encode_option(v.timeout_signature)),
      Field("two_chain_timeout", encode_option(v.two_chain_timeout))>>

\* #[derive(Serialize)] with skip_serializing_if = "Option::is_none" on
\* two_chain_timeout.
serialize(v) ==
    <<Field("vote_data", v.vote_data),
      Field("author", v.author),
      Field("ledger_info", v.ledger_info),
      Field("signature", v.signature),
      Field("timeout_signature", encode_option(v.timeout_signature))>>
    \o (IF is_none(v.two_chain_timeout) THEN << >>
        ELSE <<Field("two_chain_timeout", encode_option(v.two_chain_timeout))>>)

\* #[derive(Deserialize)] with default on two_chain_timeout.
deserialize(bytes) ==
    IF \E name \in RequiredFields : ~HasField(bytes, name) THEN DecodeErr
    ELSE DecodeOk(
        [vote_data |-> FieldValue(bytes, "vote_data"),
         author |-> FieldValue(bytes, "author"),
         ledger_info |-> FieldValue(bytes, "ledger_info"),
         signature |-> FieldValue(bytes, "signature"),
         timeout_signature |-> decode_option(FieldValue(bytes, "timeout_signature")),
         two_chain_timeout |->
            IF HasField(bytes, "two_chain_timeout")
            THEN decode_option(FieldValue(bytes, "two_chain_timeout"))
            ELSE None])

\* Vote::epoch
epoch(v) == v.vote_data.epoch

\* generate_timeout() passing round and epoch in each other's place.
generate_timeout_swapped(v) == Timeout_new(v.vote_data.round, v.vote_data.epoch)

\* Vote::generate_timeout
generate_timeout(v) == Timeout_new(v.vote_data.epoch, v.vote_data.round)

\* generate_2chain_timeout() taking the round from the quorum certificate.
generate_2chain_timeout_at_qc_round(v, qc) ==
    TwoChainTimeout_new(v.vote_data.epoch, qc.round, qc)

\* generate_2chain_timeout() for the round after the certified one.
generate_2chain_timeout_after_qc(v, qc) ==
    TwoChainTimeout_new(v.vote_data.epoch, qc.round + 1, qc)

\* Vote::generate_2chain_timeout
generate_2chain_timeout(v, qc) ==
    TwoChainTimeout_new(v.vote_data.epoch, v.vote_data.round, qc)

\* is_timeout() looking at the legacy signature only.
is_timeout_legacy_only(v) == is_some(v.timeout_signature)

\* Vote::is_timeout
is_timeout(v) == is_some(v.timeout_signature) \/ is_some(v.two_chain_timeout)

(* ---------------------------- Vote::verify ---------------------------- *)
\* What verify returns, with the checks it evaluated, in order.
Verdict(result, checks) == [result |-> result, checks |-> checks]

\* The tail of verify() with the result of vote_data().verify() dropped.
verify_vote_data_unchecked(v, validator, checks) ==
    Verdict(Ok, Append(checks, "6"))

\* self.vote_data().verify()?; Ok(())
verify_vote_data(v, validator, checks) ==
    Verdict(VoteData_verify(v.vote_data), Append(checks, "6"))

\* The 2-chain block of verify() without its (epoch, round) comparison.
verify_two_chain_timeout_no_round_check(v, validator, checks) ==
    IF is_some(v.two_chain_timeout)
    THEN LET timeout == v.two_chain_timeout[1][1]
             signature == v.two_chain_timeout[1][2]
             c5b == Append(checks, "5b")
             c5c == Append(c5b, "5c")
             r5b == TwoChainTimeout_verify(timeout, validator)
             r5c == ValidatorVerifier_verify(validator, v.author,
                                             signing_format(timeout), signature)
         IN  IF r5b # Ok THEN Verdict(r5b, c5b)
             ELSE IF r5c # Ok
             THEN Verdict(Context(r5c, "Failed to verify 2-chain timeout signature"), c5c)
             ELSE verify_vote_data(v, validator, c5c)
    ELSE verify_vote_data(v, validator, checks)

\* if let Some((timeout, signature)) = &self.two_chain_timeout { ... }
verify_two_chain_timeout(v, validator, checks) ==
    IF is_some(v.two_chain_timeout)
    THEN LET timeout == v.two_chain_timeout[1][1]
             signature == v.two_chain_timeout[1][2]
             c5a == Append(checks, "5a")
             c5b == Append(c5a, "5b")
             c5c == Append(c5b, "5c")
             r5b == TwoChainTimeout_verify(timeout, validator)
             r5c == ValidatorVerifier_verify(validator, v.author,
                                             signing_format(timeout), signature)
         IN  IF <<timeout.epoch, timeout.round>> # <<epoch(v), v.vote_data.round>>
             THEN Verdict(Bail("2-chain timeout has different (epoch, round) than Vote"), c5a)
             ELSE IF r5b # Ok THEN Verdict(r5b, c5b)
             ELSE IF r5c # Ok
             THEN Verdict(Context(r5c, "Failed to verify 2-chain timeout signature"), c5c)
             ELSE verify_vote_data(v, validator, c5c)
    ELSE verify_vote_data(v, validator, checks)

\* The legacy timeout check reporting under the primary signature's context.
verify_timeout_signature_primary_context(v, validator, checks) ==
    IF is_some(v.timeout_signature)
    THEN LET r4 == ValidatorVerifier_verify(validator, v.author,
                        TimeoutMsg(generate_timeout(v)), v.timeout_signature[1])
             c4 == Append(checks, "4")
         IN  IF r4 # Ok
             THEN Verdict(Context(r4, "Failed to verify Vote"), c4)
             ELSE verify_two_chain_timeout(v, validator, c4)
    ELSE verify_two_chain_timeout(v, validator, checks)

\* The legacy timeout check accepting the signature of any known validator.
verify_timeout_signature_any_validator(v, validator, checks) ==
    IF is_some(v.timeout_signature)
    THEN LET r4 == ValidatorVerifier_verify(validator, v.timeout_signature[1].signer,
                        TimeoutMsg(generate_timeout(v)), v.timeout_signature[1])
             c4 == Append(checks, "4")
         IN  IF r4 # Ok
             THEN Verdict(Context(r4, "Failed to verify Timeout Vote"), c4)
             ELSE verify_two_chain_timeout(v, validator, c4)
    ELSE verify_two_chain_timeout(v, validator, checks)

\* if let Some(timeout_signature) = &self.timeout_signature { ... }
verify_timeout_signature(v, validator, checks) ==
    IF is_some(v.timeout_signature)
    THEN LET r4 == ValidatorVerifier_verify(validator, v.author,
                        TimeoutMsg(generate_timeout(v)), v.timeout_signature[1])
             c4 == Append(checks, "4")
         IN  IF r4 # Ok
             THEN Verdict(Context(r4, "Failed to verify Timeout Vote"), c4)
             ELSE verify_two_chain_timeout(v, validator, c4)
    ELSE verify_two_chain_timeout(v, validator, checks)

\* verify() without the ensure! on the two timeout fields.
verify_no_exclusivity(v, validator) ==
    LET r3 == ValidatorVerifier_verify(validator, v.author,
                                       LedgerInfoMsg(v.ledger_info), v.signature)
    IN  IF ~(v.ledger_info.consensus_data_hash = Hash(v.vote_data))
        THEN Verdict(Bail("Vote's hash mismatch with LedgerInfo"), <<"1">>)
        ELSE IF r3 # Ok
        THEN Verdict(Context(r3, "Failed to verify Vote"), <<"1", "3">>)
        ELSE verify_timeout_signature(v, validator, <<"1", "3">>)

\* verify() with its first two ensure! swapped.
verify_exclusivity_first(v, validator) ==
    LET r3 == ValidatorVerifier_verify(validator, v.author,
                                       LedgerInfoMsg(v.ledger_info), v.signature)
    IN  IF ~(is_none(v.timeout_signature) \/ is_none(v.two_chain_timeout))
        THEN Verdict(Bail("Only one timeout should exist"), <<"2">>)
        ELSE IF ~(v.ledger_info.consensus_data_hash = Hash(v.vote_data))
        THEN Verdict(Bail("Vote's hash mismatch with LedgerInfo"), <<"2", "1">>)
        ELSE IF r3 # Ok
        THEN Verdict(Context(r3, "Failed to verify Vote"), <<"2", "1", "3">>)
        ELSE verify_timeout_signature(v, validator, <<"2", "1", "3">>)

\* verify() checking the primary signature before the hash binding.
verify_signature_first(v, validator) ==
    LET r3 == ValidatorVerifier_verify(validator, v.author,
                                       LedgerInfoMsg(v.ledger_info), v.signature)
    IN  IF r3 # Ok
        THEN Verdict(Context(r3, "Failed to verify Vote"), <<"3">>)
        ELSE IF ~(v.ledger_info.consensus_data_hash = Hash(v.vote_data))
        THEN Verdict(Bail("Vote's hash mismatch with LedgerInfo"), <<"3", "1">>)
        ELSE IF ~(is_none(v.timeout_signature) \/ is_none(v.two_chain_timeout))
        THEN Verdict(Bail("Only one timeout should exist"), <<"3", "1", "2">>)
        ELSE verify_timeout_signature(v, validator, <<"3", "1", "2">>)

\* verify() without the primary signature check.
verify_no_primary_check(v, validator) ==
    IF ~(v.ledger_info.consensus_data_hash = Hash(v.vote_data))
    THEN Verdict(Bail("Vote's hash mismatch with LedgerInfo"), <<"1">>)
    ELSE IF ~(is_none(v.timeout_signature) \/ is_none(v.two_chain_timeout))
    THEN Verdict(Bail("Only one timeout should exist"), <<"1", "2">>)
    ELSE verify_timeout_signature(v, validator, <<"1", "2">>)

\* Vote::verify
verify(v, validator) ==
    LET r3 == ValidatorVerifier_verify(validator, v.author,
                                       LedgerInfoMsg(v.ledger_info), v.signature)
    IN  IF ~(v.ledger_info.consensus_data_hash = Hash(v.vote_data))
        THEN Verdict(Bail("Vote's hash mismatch with LedgerInfo"), <<"1">>)
        ELSE IF ~(is_none(v.timeout_signature) \/ is_none(v.two_chain_timeout))
        THEN Verdict(Bail("Only one timeout should exist"), <<"1", "2">>)
        ELSE IF r3 # Ok
        THEN Verdict(Context(r3, "Failed to verify Vote"), <<"1", "2", "3">>)
        ELSE verify_timeout_signature(v, validator, <<"1", "2", "3">>)

(* ------------------------------ inputs -------------------------------- *)
\* The timeouts given to a vote are drawn around it: its own epoch and
\* round, and the next epoch and the next round (the first one after the
\* last), so that every comparison sees both an equal and an unequal value.
NextEpoch(e) == IF e = MaxEpoch THEN 1 ELSE e + 1
NextRound(r) == IF r = MaxRound THEN 4 ELSE r + 1
Nearby(vote_data) ==
    {<<vote_data.epoch, vote_data.round>>,
     <<vote_data.epoch, NextRound(vote_data.round)>>,
     <<NextEpoch(vote_data.epoch), vote_data.round>>}

\* Signatures a caller can pass to new_with_signature with this vote data
\* and ledger info: any validator's signature over the ledger info, or its
\* signature over the round's Timeout (a signature of another payload).
PrimarySignatures(vote_data, ledger_info) ==
    {ValidatorSigner_sign(s, m) :
        s \in Authors,
        m \in {LedgerInfoMsg(ledger_info),
               TimeoutMsg(Timeout_new(vote_data.epoch, vote_data.round))}}

\* Legacy timeout signatures: any validator's signature over a Timeout
\* near the vote's.
TimeoutSignatures(vote_data) ==
    {ValidatorSigner_sign(s, TimeoutMsg(Timeout_new(p[1], p[2]))) :
        s \in Authors, p \in Nearby(vote_data)}

\* 2-chain timeouts near the vote's, for any quorum certificate.
TwoChainTimeoutsFor(vote_data) ==
    {TwoChainTimeout_new(p[1], p[2], qc) : p \in Nearby(vote_data), qc \in QuorumCerts}

\* Signatures passed along with a 2-chain timeout: any validator's
\* signature over its signing format, or over the legacy Timeout of the
\* same (epoch, round) (a signature of another payload).
TwoChainSignatures(timeout) ==
    {ValidatorSigner_sign(s, m) :
        s \in Authors,
        m \in {signing_format(timeout),
               TimeoutMsg(Timeout_new(timeout.epoch, timeout.round))}}

\* The votes a sender can put on the wire with this vote data and ledger
\* info: any author, any validator's signature over the ledger info, a
\* legacy timeout signature or none, a 2-chain timeout signed by any
\* validator or none.
WireVotesOf(vote_data, ledger_info) ==
    {[vote_data |-> vote_data,
      author |-> author,
      ledger_info |-> ledger_info,
      signature |-> ValidatorSigner_sign(s, LedgerInfoMsg(ledger_info)),
      timeout_signature |-> timeout_signature,
      two_chain_timeout |-> two_chain_timeout] :
        author \in Authors,
        s \in Authors,
        timeout_signature \in
          {None} \cup {Some(sig) : sig \in TimeoutSignatures(vote_data)},
        two_chain_timeout \in
          {None} \cup {Some(<<t, ValidatorSigner_sign(s2, signing_format(t))>>) :
                          t \in TwoChainTimeoutsFor(vote_data), s2 \in Authors}}

\* The hash slot of a vote on the wire: the vote data's hash, or zero.
WireLedgerInfos(vote_data) ==
    {li \in LedgerInfos : li.consensus_data_hash \in {Hash(vote_data), 0}}

WireVotes ==
    UNION {UNION {WireVotesOf(vote_data, li) : li \in WireLedgerInfos(vote_data)} :
             vote_data \in VoteDatas}

(* ------------------------------- state -------------------------------- *)
VARIABLES
    vote,       \* Option<Vote>: the vote object, None before construction
    pc,         \* "init", "live", or "aborted" after a failed assert!
    origin,     \* how the vote came to be: "new", "new_with_signature", "wire"
    last,       \* the operation that ran last
    early,      \* the last operation returned early, changing nothing
    validator,  \* the ValidatorVerifier of the last verify (its validators)
    result,     \* what the last verify returned
    checks,     \* the checks the last verify evaluated, in order
    args,       \* the arguments of the last call, where calls are recorded
    returned    \* Option: what the last recorded call returned; for
                \* add_2chain_timeout, the value its assignment replaced

vars == <<vote, pc, origin, last, early, validator, result, checks, args, returned>>

\* The vote object, once there is one.
V == vote[1]

NotRun == <<"verify has not run">>

Init ==
    /\ vote = None
    /\ pc = "init"
    /\ origin = "none"
    /\ last = "none"
    /\ early = FALSE
    /\ validator = {}
    /\ result = NotRun
    /\ checks = << >>
    /\ args = << >>
    /\ returned = None

\* The step records no call.
NoCall ==
    /\ args' = << >>
    /\ returned' = None

NoVerdict ==
    /\ validator' = {}
    /\ result' = NotRun
    /\ checks' = << >>

Construct(v, how) ==
    /\ pc = "init"
    /\ vote' = Some(v)
    /\ pc' = "live"
    /\ origin' = how
    /\ last' = how
    /\ early' = FALSE
    /\ NoVerdict
    /\ NoCall

\* Vote::new(vote_data, author, ledger_info_placeholder, validator_signer)
New ==
    /\ pc = "init"
    /\ \E vote_data \in VoteDatas, author \in Authors,
          ledger_info_placeholder \in LedgerInfos, validator_signer \in Authors :
        Construct(new(vote_data, author, ledger_info_placeholder, validator_signer),
                  "new")

\* Vote::new_with_signature(vote_data, author, ledger_info, signature)
NewWithSignature ==
    /\ pc = "init"
    /\ \E vote_data \in VoteDatas, author \in Authors :
        \E ledger_info \in LedgerInfos :
          \E signature \in PrimarySignatures(vote_data, ledger_info) :
            Construct(new_with_signature(vote_data, author, ledger_info, signature),
                      "new_with_signature")

\* #[derive(Deserialize)]: every field comes from the sender's bytes.
Deserialize ==
    /\ pc = "init"
    /\ \E v \in WireVotes : Construct(v, "wire")

Mutate(outcome, op) ==
    /\ pc = "live"
    /\ vote' = Some(outcome.vote)
    /\ pc' = IF outcome.panic THEN "aborted" ELSE "live"
    /\ early' = outcome.early
    /\ last' = op
    /\ UNCHANGED origin
    /\ NoVerdict
    /\ NoCall

\* vote.add_timeout_signature(signature)
AddTimeoutSignature ==
    /\ pc = "live"
    /\ \E signature \in TimeoutSignatures(V.vote_data) :
        Mutate(add_timeout_signature(V, signature), "add_timeout_signature")

\* vote.add_2chain_timeout(timeout, signature)
Add2ChainTimeout ==
    /\ pc = "live"
    /\ \E timeout \in TwoChainTimeoutsFor(V.vote_data) :
        \E signature \in TwoChainSignatures(timeout) :
            Mutate(add_2chain_timeout(V, timeout, signature), "add_2chain_timeout")

\* vote.verify(&validator)
Verify ==
    /\ pc = "live"
    /\ \E verifier \in Verifiers :
        LET verdict == verify(V, verifier)
        IN  /\ validator' = verifier
            /\ result' = verdict.result
            /\ checks' = verdict.checks
    /\ last' = "verify"
    /\ early' = FALSE
    /\ UNCHANGED <<vote, pc, origin>>
    /\ NoCall

Next ==
    \/ New
    \/ NewWithSignature
    \/ Deserialize
    \/ AddTimeoutSignature
    \/ Add2ChainTimeout
    \/ Verify

Spec == Init /\ [][Next]_vars

(* ------------------------- calls, recorded ---------------------------- *)
\* The same vote object with the arguments and the return value of each
\* call kept, for what is said of a call's arguments and of the values
\* the &self methods return.

\* serde::Serialize for Vote
SerializeVote ==
    /\ pc = "live"
    /\ args' = << >>
    /\ returned' = Some(serialize(V))
    /\ last' = "serialize"
    /\ early' = FALSE
    /\ UNCHANGED <<vote, pc, origin>>
    /\ NoVerdict

\* serde::Deserialize for Vote, on the bytes just written or on those
\* bytes cut before their last field.
DeserializeBytes ==
    /\ pc = "live"
    /\ last = "serialize"
    /\ \E bytes \in {returned[1], SubSeq(returned[1], 1, Len(returned[1]) - 1)} :
        /\ args' = <<bytes>>
        /\ returned' = Some(deserialize(bytes))
    /\ last' = "deserialize"
    /\ early' = FALSE
    /\ UNCHANGED <<vote, pc, origin>>
    /\ NoVerdict

NextWire ==
    \/ New
    \/ Deserialize
    \/ SerializeVote
    \/ DeserializeBytes

SpecWire == Init /\ [][NextWire]_vars

\* vote.add_2chain_timeout(timeout, signature), its arguments kept.
Add2ChainTimeoutCall ==
    /\ pc = "live"
    /\ \E timeout \in TwoChainTimeoutsFor(V.vote_data) :
        \E signature \in TwoChainSignatures(timeout) :
            LET outcome == add_2chain_timeout(V, timeout, signature)
            IN  /\ vote' = Some(outcome.vote)
                /\ pc' = IF outcome.panic THEN "aborted" ELSE "live"
                /\ early' = outcome.early
                /\ args' = <<timeout, signature>>
                /\ returned' = V.two_chain_timeout
    /\ last' = "add_2chain_timeout"
    /\ UNCHANGED origin
    /\ NoVerdict

\* vote.generate_timeout()
GenerateTimeout ==
    /\ pc = "live"
    /\ args' = << >>
    /\ returned' = Some(generate_timeout(V))
    /\ last' = "generate_timeout"
    /\ early' = FALSE
    /\ UNCHANGED <<vote, pc, origin>>
    /\ NoVerdict

\* vote.generate_2chain_timeout(qc)
Generate2ChainTimeout ==
    /\ pc = "live"
    /\ \E qc \in QuorumCerts :
        /\ args' = <<qc>>
        /\ returned' = Some(generate_2chain_timeout(V, qc))
    /\ last' = "generate_2chain_timeout"
    /\ early' = FALSE
    /\ UNCHANGED <<vote, pc, origin>>
    /\ NoVerdict

NextCalls ==
    \/ New
    \/ Deserialize
    \/ Add2ChainTimeoutCall
    \/ GenerateTimeout
    \/ Generate2ChainTimeout

SpecCalls == Init /\ [][NextCalls]_vars

(* ------------------------------ typing -------------------------------- *)
TypeOK ==
    /\ pc \in {"init", "live", "aborted"}
    /\ (pc = "init") <=> (vote = None)
    /\ origin \in {"none", "new", "new_with_signature", "wire"}
    /\ early \in BOOLEAN
    /\ (result = NotRun) <=> (last # "verify")

(* --------------------------- properties ------------------------------- *)
\* The vote was built by a constructor, not decoded from the wire.
Local == vote # None /\ origin \in {"new", "new_with_signature"}
Verified == last = "verify"

\* The errors of verify(), by the kind the design names.
HashMismatch == Bail("Vote's hash mismatch with LedgerInfo")
ConflictingTimeoutAttestations == Bail("Only one timeout should exist")
TimeoutRoundMismatch ==
    Bail("2-chain timeout has different (epoch, round) than Vote")

\* What each step of the verification protocol requires of a vote, stated
\* on the vote's fields and the signer of each signature.
SignedBy(signature, author, message) ==
    signature.signer = author /\ signature.msg = message
BothTimeouts(v) == is_some(v.timeout_signature) /\ is_some(v.two_chain_timeout)
HashBound(v) == v.ledger_info.consensus_data_hash = Hash(v.vote_data)
PrimaryValid(v, known) ==
    v.author \in known /\ SignedBy(v.signature, v.author, LedgerInfoMsg(v.ledger_info))
LegacyValid(v, known) ==
    /\ v.author \in known
    /\ SignedBy(v.timeout_signature[1], v.author,
                <<"Timeout", v.vote_data.epoch, v.vote_data.round>>)
RoundsMatch(v) ==
    /\ v.two_chain_timeout[1][1].epoch = v.vote_data.epoch
    /\ v.two_chain_timeout[1][1].round = v.vote_data.round
TimeoutVerifies(v) == v.two_chain_timeout[1][1].quorum_cert.valid
TwoChainValid(v, known) ==
    /\ v.author \in known
    /\ SignedBy(v.two_chain_timeout[1][2], v.author,
                signing_format(v.two_chain_timeout[1][1]))
VoteDataValid(v) == v.vote_data.ok

\* C1: a vote built by new() or new_with_signature() and augmented through
\* add_timeout_signature() and add_2chain_timeout() never holds both a
\* legacy timeout signature and a 2-chain timeout; only a vote decoded from
\* the wire can.
C1_AtMostOneTimeout == Local => ~BothTimeouts(V)

\* A locally built vote holding one attestation refused the other one.
C1_Witness ==
    Local /\ pc = "aborted" /\ last = "add_timeout_signature"
          /\ is_some(V.two_chain_timeout)

\* C2: verify() rejects every vote holding both timeout fields, and with
\* "Only one timeout should exist" whenever the hash binding holds,
\* whatever the signatures, the embedded timeout and the vote data are.
C2_BothRejected ==
    (Verified /\ BothTimeouts(V)) =>
        /\ result # Ok
        /\ HashBound(V) => result = ConflictingTimeoutAttestations

\* A vote with both fields whose every other part is valid was verified.
C2_Witness ==
    /\ Verified /\ BothTimeouts(V) /\ HashBound(V)
    /\ PrimaryValid(V, validator) /\ LegacyValid(V, validator)
    /\ RoundsMatch(V) /\ TimeoutVerifies(V) /\ TwoChainValid(V, validator)
    /\ VoteDataValid(V)

\* C3: a vote carrying vote data v1 whose ledger info holds hash(v2), with
\* hash(v1) # hash(v2), fails verify() with "Vote's hash mismatch with
\* LedgerInfo", also when the author validly signed the altered ledger
\* info, and with any timeout fields.
C3_Binding ==
    (Verified /\ \E v2 \in VoteDatas :
                    /\ Hash(v2) # Hash(V.vote_data)
                    /\ V.ledger_info.consensus_data_hash = Hash(v2)) =>
        result = HashMismatch

\* A vote with the hash of other vote data in its ledger info, validly
\* signed by its known author and carrying a timeout, was verified.
C3_Witness ==
    /\ Verified /\ PrimaryValid(V, validator) /\ is_timeout(V)
    /\ \E v2 \in VoteDatas :
        /\ v2 # V.vote_data
        /\ V.ledger_info.consensus_data_hash = Hash(v2)

\* C4: a vote from new() has no timeout attestation, and when its author
\* is the signer, is known to the verifier, and the vote data verifies,
\* it passes verify(), whatever the placeholder's hash slot held.
C4_NewVerifies ==
    /\ last = "new" => (~is_timeout(V) /\ HashBound(V))
    /\ (/\ Verified /\ origin = "new" /\ ~is_timeout(V)
        /\ V.signature.signer = V.author /\ V.author \in validator
        /\ VoteDataValid(V)) => result = Ok

\* A vote from new() by a known author for round 5 of epoch 2 verified.
C4_Witness ==
    /\ Verified /\ origin = "new" /\ ~is_timeout(V) /\ result = Ok
    /\ V.vote_data.epoch = 2 /\ V.vote_data.round = 5

\* The steps of the verification protocol that apply to a vote, in order.
Steps(v) ==
    <<"1", "2", "3">>
        \o (IF is_some(v.timeout_signature) THEN <<"4">> ELSE << >>)
        \o (IF is_some(v.two_chain_timeout) THEN <<"5a", "5b", "5c">> ELSE << >>)
        \o <<"6">>

Passes(step, v, known) ==
    CASE step = "1" -> HashBound(v)
      [] step = "2" -> ~BothTimeouts(v)
      [] step = "3" -> PrimaryValid(v, known)
      [] step = "4" -> LegacyValid(v, known)
      [] step = "5a" -> RoundsMatch(v)
      [] step = "5b" -> TimeoutVerifies(v)
      [] step = "5c" -> TwoChainValid(v, known)
      [] step = "6" -> VoteDataValid(v)

ErrorOf(step) ==
    CASE step = "1" -> HashMismatch
      [] step = "2" -> ConflictingTimeoutAttestations
      [] step = "3" -> <<"Failed to verify Vote", "VerifyError">>
      [] step = "4" -> <<"Failed to verify Timeout Vote", "VerifyError">>
      [] step = "5a" -> TimeoutRoundMismatch
      [] step = "5b" -> <<"TwoChainTimeout is invalid">>
      [] step = "5c" -> <<"Failed to verify 2-chain timeout signature", "VerifyError">>
      [] step = "6" -> <<"VoteData is inconsistent">>

Failing(v, known) ==
    {i \in 1..Len(Steps(v)) : ~Passes(Steps(v)[i], v, known)}

\* C5: verify() is fail-fast in the order 1, 2, 3, 4, 5a, 5b, 5c, 6: it
\* returns the error of the earliest failing step and evaluates no step
\* after it; with no failing step it evaluates them all and returns Ok.
C5_FailFast ==
    Verified =>
        LET failing == Failing(V, validator)
        IN  IF failing = {}
            THEN result = Ok /\ checks = Steps(V)
            ELSE LET first == CHOOSE i \in failing : \A j \in failing : i <= j
                 IN  /\ result = ErrorOf(Steps(V)[first])
                     /\ checks = SubSeq(Steps(V), 1, first)

\* A vote failing the hash binding, the exclusivity and two more steps
\* was verified.
C5_Witness ==
    /\ Verified /\ ~HashBound(V) /\ BothTimeouts(V)
    /\ Cardinality(Failing(V, validator)) >= 4

\* The vote of Scenario E: built by new() for round 5 by a known author
\* signing for itself, then given the timeout of generate_2chain_timeout
\* for a quorum certificate of round 4, signed by the author.
ScenarioE ==
    /\ Verified /\ origin = "new"
    /\ V.signature.signer = V.author /\ V.author \in validator
    /\ V.vote_data.round = 5
    /\ is_some(V.two_chain_timeout)
    /\ \E qc \in QuorumCerts :
        /\ qc.round = 4
        /\ V.two_chain_timeout[1][1] = generate_2chain_timeout(V, qc)
    /\ TwoChainValid(V, validator)

\* C6 as claimed: verify() fails the vote of Scenario E with "2-chain
\* timeout has different (epoch, round) than Vote".
C6_ScenarioE_Claimed == ScenarioE => result = TimeoutRoundMismatch

\* C6: the timeout of generate_2chain_timeout carries the vote's own
\* (epoch, round), not the certificate's: verify() passes step 5a on the
\* vote of Scenario E, never fails it with the round mismatch, and
\* accepts it when the certificate and the vote data verify.
C6_ScenarioE ==
    ScenarioE =>
        /\ result # TimeoutRoundMismatch
        /\ \E i \in 1..Len(checks) : checks[i] = "5b"
        /\ (TimeoutVerifies(V) /\ VoteDataValid(V)) => result = Ok

C6_Witness == ScenarioE /\ result = Ok

\* C7 as claimed: a locally built vote holding a 2-chain timeout holds one
\* for its own (epoch, round).
C7_LocalRoundsMatch_Claimed ==
    (Local /\ is_some(V.two_chain_timeout)) => RoundsMatch(V)

\* C7: add_2chain_timeout() stores the timeout it is given unchecked; it
\* is verify() that establishes the equality: every vote verify() accepts
\* with a 2-chain timeout holds one for its own (epoch, round), and a vote
\* holding another one that passes steps 1 to 4 fails with the round
\* mismatch.
C7_AcceptedRoundsMatch ==
    (Verified /\ is_some(V.two_chain_timeout)) =>
        /\ result = Ok => RoundsMatch(V)
        /\ (/\ ~RoundsMatch(V) /\ HashBound(V) /\ ~BothTimeouts(V)
            /\ PrimaryValid(V, validator)) => result = TimeoutRoundMismatch

\* A locally built vote was accepted with its 2-chain timeout.
C7_Witness ==
    Verified /\ Local /\ is_some(V.two_chain_timeout) /\ result = Ok

\* C8: verify() returns Ok exactly when every step holds: the hash
\* binding, at most one timeout field, the primary signature, the legacy
\* timeout signature if present, the 2-chain timeout's rounds, its own
\* verification and its signature if present, and the vote data.
C8_VerdictIsConjunction ==
    Verified =>
        (result = Ok <=>
            /\ HashBound(V)
            /\ ~BothTimeouts(V)
            /\ PrimaryValid(V, validator)
            /\ is_some(V.timeout_signature) => LegacyValid(V, validator)
            /\ is_some(V.two_chain_timeout) =>
                (RoundsMatch(V) /\ TimeoutVerifies(V) /\ TwoChainValid(V, validator))
            /\ VoteDataValid(V))

\* A vote whose only failing step is the last one, the vote data, was
\* verified.
C8_Witness ==
    /\ Verified /\ is_some(V.timeout_signature)
    /\ Failing(V, validator) = {Len(Steps(V))}

\* C9: add_timeout_signature() aborts whenever a 2-chain timeout is
\* present and add_2chain_timeout() whenever a legacy signature is; no
\* step takes a vote from the legacy state to one with a 2-chain timeout,
\* from the 2-chain state to one with a legacy signature, or from a
\* timeout vote back to a vote without attestation.
C9_ForwardOnly ==
    [][pc = "live" =>
        /\ (last' = "add_timeout_signature" /\ is_some(V.two_chain_timeout))
                => pc' = "aborted"
        /\ (last' = "add_2chain_timeout" /\ is_some(V.timeout_signature))
                => pc' = "aborted"
        /\ (is_some(V.timeout_signature) /\ is_none(V.two_chain_timeout))
                => is_none(vote'[1].two_chain_timeout)
        /\ (is_some(V.two_chain_timeout) /\ is_none(V.timeout_signature))
                => is_none(vote'[1].timeout_signature)
        /\ is_some(V.timeout_signature) => is_some(vote'[1].timeout_signature)
        /\ is_some(V.two_chain_timeout) => is_some(vote'[1].two_chain_timeout)]_vars

\* A vote in the legacy state refused a 2-chain timeout.
C9_Witness ==
    /\ pc = "aborted" /\ last = "add_2chain_timeout"
    /\ is_some(V.timeout_signature) /\ is_none(V.two_chain_timeout)

\* C10: on a vote with a legacy timeout signature and no 2-chain timeout,
\* add_timeout_signature() with any signature returns early: it neither
\* aborts nor changes the vote, so the first signature stays.
C10_FirstSignatureWins ==
    [][(/\ pc = "live" /\ last' = "add_timeout_signature"
        /\ is_none(V.two_chain_timeout)) =>
            /\ pc' = "live"
            /\ is_some(vote'[1].timeout_signature)
            /\ is_some(V.timeout_signature) => (vote' = vote /\ early')]_vars

\* A second add_timeout_signature() on a locally built vote returned early.
C10_Witness ==
    /\ Local /\ pc = "live" /\ last = "add_timeout_signature" /\ early
    /\ is_some(V.timeout_signature)

\* C11: on a vote without legacy timeout signature add_2chain_timeout(t, s)
\* does not abort and leaves two_chain_timeout exactly (t, s), whatever it
\* held before: a second call overwrites the timeout and its signature.
C11_LastTimeoutWins ==
    [][(/\ pc = "live" /\ last' = "add_2chain_timeout"
        /\ is_none(V.timeout_signature)) =>
            /\ pc' = "live"
            /\ ~early'
            /\ vote'[1].two_chain_timeout = Some(args')
            /\ vote'[1] = [V EXCEPT !.two_chain_timeout = Some(args')]]_vars

\* A second add_2chain_timeout() replaced a different timeout or signature.
C11_Witness ==
    /\ pc = "live" /\ last = "add_2chain_timeout" /\ origin = "new"
    /\ is_some(returned) /\ returned # V.two_chain_timeout
    /\ V.two_chain_timeout = Some(args)

\* C12: verify() returns on every vote, the decoded ones with any
\* combination of fields included: it leaves a verdict that is Ok or an
\* error and the object stays usable. The only aborts are those of
\* add_timeout_signature() called with a 2-chain timeout present and of
\* add_2chain_timeout() called with a legacy timeout signature present.
C12_VerifyNeverAborts ==
    [][pc = "live" =>
        /\ last' = "verify" =>
            /\ pc' = "live" /\ vote' = vote
            /\ result' = Ok \/ (result' # NotRun /\ Len(result') >= 1)
        /\ pc' = "aborted" =>
            \/ last' = "add_timeout_signature" /\ is_some(V.two_chain_timeout)
            \/ last' = "add_2chain_timeout" /\ is_some(V.timeout_signature)]_vars

\* verify() returned on a decoded vote with both timeout fields and a
\* broken hash binding, which no sequence of API calls builds.
C12_Witness ==
    /\ Verified /\ pc = "live" /\ origin = "wire"
    /\ BothTimeouts(V) /\ ~HashBound(V) /\ result # Ok

\* The error of a failed legacy timeout signature check (step 4).
LegacyTimeoutSignatureInvalid ==
    Context(Bail("VerifyError"), "Failed to verify Timeout Vote")

\* C13: for a vote that passes the hash binding, the exclusivity check and
\* the primary signature check and carries a legacy timeout signature,
\* verify() accepts only if that signature is the author's over the
\* Timeout of the (epoch, round) of the vote's proposed block; the author's
\* signature over any other (epoch, round) is rejected with the legacy
\* timeout signature error; and a vote from new() carrying its author's
\* signature over that Timeout is a timeout vote that verify() accepts
\* when the author is known, signed the ledger info and the vote data
\* is consistent.
C13_LegacyTimeoutCheck ==
    (/\ Verified /\ HashBound(V) /\ ~BothTimeouts(V)
     /\ PrimaryValid(V, validator) /\ is_some(V.timeout_signature)) =>
        /\ result = Ok => LegacyValid(V, validator)
        /\ (/\ V.timeout_signature[1].signer = V.author
            /\ \E e \in Epochs, r \in Rounds :
                /\ <<e, r>> # <<V.vote_data.epoch, V.vote_data.round>>
                /\ V.timeout_signature[1].msg = <<"Timeout", e, r>>) =>
                    result = LegacyTimeoutSignatureInvalid
        /\ (origin = "new" /\ LegacyValid(V, validator) /\ VoteDataValid(V)) =>
                is_timeout(V) /\ result = Ok

\* A vote from new() by its known author, carrying the author's signature
\* over the Timeout of another round, was rejected at the legacy check.
C13_Witness ==
    /\ Verified /\ origin = "new" /\ PrimaryValid(V, validator)
    /\ is_some(V.timeout_signature)
    /\ V.timeout_signature[1] =
        ValidatorSigner_sign(V.author,
            <<"Timeout", V.vote_data.epoch, NextRound(V.vote_data.round)>>)
    /\ result = LegacyTimeoutSignatureInvalid
    /\ checks = <<"1", "2", "3", "4">>

\* C14: every call of add_timeout_signature() or add_2chain_timeout(),
\* whether it stores, returns early or aborts, leaves vote_data, author,
\* ledger_info and signature as they were; add_timeout_signature() leaves
\* two_chain_timeout and add_2chain_timeout() leaves timeout_signature as
\* they were; so the hash binding and the primary signature check have the
\* same outcome before and after.
C14_AppendOnlyFrame ==
    [][(pc = "live" /\ last' \in {"add_timeout_signature", "add_2chain_timeout"}) =>
        /\ vote'[1].vote_data = V.vote_data
        /\ vote'[1].author = V.author
        /\ vote'[1].ledger_info = V.ledger_info
        /\ vote'[1].signature = V.signature
        /\ last' = "add_timeout_signature" =>
                vote'[1].two_chain_timeout = V.two_chain_timeout
        /\ last' = "add_2chain_timeout" =>
                vote'[1].timeout_signature = V.timeout_signature
        /\ HashBound(vote'[1]) <=> HashBound(V)
        /\ \A known \in Verifiers :
                PrimaryValid(vote'[1], known) <=> PrimaryValid(V, known)]_vars

\* A vote built with a ledger info that does not hold the hash of its
\* vote data took a 2-chain timeout, and the binding is still broken.
C14_Witness ==
    /\ pc = "live" /\ last = "add_2chain_timeout"
    /\ origin = "new_with_signature"
    /\ is_some(V.two_chain_timeout) /\ ~HashBound(V)

\* C15: generate_timeout() and generate_2chain_timeout(qc) leave the vote
\* as it was and return a value whose (epoch, round) is that of the vote's
\* proposed block, whatever the round of qc and whatever timeout the vote
\* already carries; the value of generate_2chain_timeout(qc) carries qc,
\* and once attached to the same vote with add_2chain_timeout(), under any
\* signature, verify() never reports a round mismatch for it.
C15_PureDerivations ==
    [][(pc = "live" /\ last' \in {"generate_timeout", "generate_2chain_timeout"}) =>
        /\ vote' = vote /\ pc' = "live"
        /\ is_some(returned')
        /\ returned'[1].epoch = V.vote_data.epoch
        /\ returned'[1].round = V.vote_data.round
        /\ last' = "generate_timeout" =>
                returned'[1] = [epoch |-> epoch(V), round |-> V.vote_data.round]
        /\ last' = "generate_2chain_timeout" =>
            /\ returned'[1].quorum_cert = args'[1]
            /\ \A s \in TwoChainSignatures(returned'[1]), known \in Verifiers :
                LET attached == add_2chain_timeout(V, returned'[1], s)
                IN  ~attached.panic =>
                        /\ RoundsMatch(attached.vote)
                        /\ verify(attached.vote, known).result
                                # TimeoutRoundMismatch]_vars

\* generate_2chain_timeout() was called with a certificate of another
\* round on a vote that carries a 2-chain timeout of another round.
C15_Witness ==
    /\ pc = "live" /\ last = "generate_2chain_timeout"
    /\ args[1].round # V.vote_data.round
    /\ is_some(V.two_chain_timeout)
    /\ V.two_chain_timeout[1][1].round # V.vote_data.round
    /\ returned[1].round = V.vote_data.round

C17_IsTimeout ==
    [][/\ pc' # "init" =>
            (is_timeout(vote'[1]) <=>
                (vote'[1].timeout_signature # None \/ vote'[1].two_chain_timeout # None))
       /\ (pc = "init" /\ last' \in {"new", "new_with_signature"}) =>
            ~is_timeout(vote'[1])
       /\ (/\ pc = "live" /\ pc' = "live"
           /\ last' \in {"add_timeout_signature", "add_2chain_timeout"}) =>
            is_timeout(vote'[1])
       /\ (pc = "live" /\ is_timeout(V)) => is_timeout(vote'[1])]_vars

\* A vote from new() that took a 2-chain timeout is still a timeout vote
\* after a later verify().
C17_Witness ==
    /\ Verified /\ origin = "new" /\ is_timeout(V)
    /\ is_none(V.timeout_signature) /\ is_some(V.two_chain_timeout)

\* The steps whose failure this core words itself, and its words: the
\* messages of the three ensure! and the three contexts.
CoreSteps == {"1", "2", "3", "4", "5a", "5c"}
CoreDescription(step) ==
    CASE step = "1" -> "Vote's hash mismatch with LedgerInfo"
      [] step = "2" -> "Only one timeout should exist"
      [] step = "3" -> "Failed to verify Vote"
      [] step = "4" -> "Failed to verify Timeout Vote"
      [] step = "5a" -> "2-chain timeout has different (epoch, round) than Vote"
      [] step = "5c" -> "Failed to verify 2-chain timeout signature"

\* C18 as stated: every error verify() returns carries, outermost, a
\* description of this core that identifies the failed check.
C18_EveryErrorWrapped_Claimed ==
    (Verified /\ result # Ok) =>
        \E step \in CoreSteps :
            /\ result[1] = CoreDescription(step)
            /\ checks[Len(checks)] = step

\* C18: an error of verify() is, by the step that failed: for steps 1, 2
\* and 5(a) this core's own message alone; for steps 3, 4 and 5(c) the
\* verifier's error under a context of this core that names the signature;
\* for steps 5(b) and 6 the error of TwoChainTimeout.verify or of
\* VoteData.verify as the delegate returned it, with nothing added by this
\* core. The six descriptions of this core are pairwise distinct.
C18_ErrorContexts ==
    /\ \A s1, s2 \in CoreSteps : s1 # s2 => CoreDescription(s1) # CoreDescription(s2)
    /\ (Verified /\ result # Ok) =>
        LET step == checks[Len(checks)]
        IN  /\ step \in {"1", "2", "5a"} => result = <<CoreDescription(step)>>
            /\ step \in {"3", "4", "5c"} =>
                /\ Len(result) = 2
                /\ result[1] = CoreDescription(step)
            /\ step = "3" =>
                Tail(result) = ValidatorVerifier_verify(validator, V.author,
                                    LedgerInfoMsg(V.ledger_info), V.signature)
            /\ step = "4" =>
                Tail(result) = ValidatorVerifier_verify(validator, V.author,
                                    <<"Timeout", V.vote_data.epoch, V.vote_data.round>>,
                                    V.timeout_signature[1])
            /\ step = "5c" =>
                Tail(result) = ValidatorVerifier_verify(validator, V.author,
                                    signing_format(V.two_chain_timeout[1][1]),
                                    V.two_chain_timeout[1][2])
            /\ step = "5b" =>
                result = TwoChainTimeout_verify(V.two_chain_timeout[1][1], validator)
            /\ step = "6" => result = VoteData_verify(V.vote_data)

\* A vote passing every check before 5(b) carried a 2-chain timeout that
\* does not verify: the delegate's error came back without a context.
C18_Witness ==
    /\ Verified /\ result # Ok
    /\ checks = <<"1", "2", "3", "5a", "5b">>
    /\ Len(result) = 1
    /\ result[1] \notin {CoreDescription(step) : step \in CoreSteps}

\* C19: every signature of a vote is checked against its one author field:
\* a vote with a timeout attestation that verify() accepts has its primary
\* signature and its legacy or 2-chain timeout signature made by its
\* author; a vote whose timeout signature was made by another validator
\* than its primary signature is rejected.
C19_SingleAuthor ==
    (Verified /\ is_timeout(V)) =>
        LET timeout_signers ==
                (IF is_some(V.timeout_signature)
                    THEN {V.timeout_signature[1].signer} ELSE {})
                \cup (IF is_some(V.two_chain_timeout)
                    THEN {V.two_chain_timeout[1][2].signer} ELSE {})
        IN  /\ result = Ok =>
                /\ V.signature.signer = V.author
                /\ timeout_signers = {V.author}
                /\ V.author \in validator
            /\ (\E b \in timeout_signers : b # V.signature.signer) => result # Ok

\* A vote validly signed by its known author, with a legacy timeout
\* signature another known validator made over the right Timeout, was
\* rejected at the legacy check.
C19_Witness ==
    /\ Verified /\ PrimaryValid(V, validator)
    /\ is_some(V.timeout_signature) /\ is_none(V.two_chain_timeout)
    /\ V.timeout_signature[1].signer # V.author
    /\ V.timeout_signature[1].signer \in validator
    /\ V.timeout_signature[1].msg = <<"Timeout", V.vote_data.epoch, V.vote_data.round>>
    /\ HashBound(V)
    /\ result = LegacyTimeoutSignatureInvalid

\* C20: new() takes any author with any signer: it returns a vote whose
\* signature is the signer's, whoever the author is; when the two differ,
\* verify() passes the hash binding and the exclusivity check and rejects
\* the vote at the primary signature check, whatever was added to it since.
C20_AuthorNotBoundToSigner ==
    /\ last = "new" =>
        /\ pc = "live"
        /\ V.signature.msg = LedgerInfoMsg(V.ledger_info)
    /\ (Verified /\ origin = "new" /\ V.signature.signer # V.author) =>
        /\ result = Context(Bail("VerifyError"), "Failed to verify Vote")
        /\ checks = <<"1", "2", "3">>

\* A vote built by new() for a known author and signed by another known
\* validator, carrying a legacy timeout signature, was verified.
C20_Witness ==
    /\ Verified /\ origin = "new"
    /\ V.signature.signer # V.author
    /\ V.author \in validator /\ V.signature.signer \in validator
    /\ is_some(V.timeout_signature)
    /\ checks = <<"1", "2", "3">>

=============================================================================
